---------------------------- MODULE Spec2Model ----------------------------
(***************************************************************************)
(* Model of vumi/demos/hangman.py: the HangmanGame state machine, its      *)
(* string codec (state / from_state) and the HangmanWorker session         *)
(* handlers over the redis store and the asynchronous random-word fetch.   *)
(*                                                                         *)
(* Texts are sequences of pieces.  A piece is one character, or a literal  *)
(* fragment of one of the program's fixed texts that holds no ':' (every   *)
(* ':' of a text is a piece of its own, so str.split(":") sees them all).  *)
(* Words, user inputs, guessed letters and word-source bytes are made of   *)
(* one-character pieces only.                                              *)
(***************************************************************************)
EXTENDS Integers, Sequences, FiniteSets, TLC

VARIABLES
    game,      \* GameSpec / CodecSpec: the HangmanGame instance under test
    input,     \* the string passed to game.event() by the last step
    decoded,   \* CodecSpec: from_state(game.state()), or NoGame before the call
    store,     \* Spec: r_server, the stored bytes of every key that is set
    pending,   \* Spec: handlers suspended at "yield self.new_game(msisdn)"
    turn,      \* Spec: what the last handler step did (reply / end / failure)
    stale      \* Spec: the suspended handlers whose key another handler has
               \* written with save_game since they loaded it

vars == <<game, input, decoded, store, pending, turn, stale>>

----------------------------------------------------------------------------
(* Bounds of the model *)

\* Handlers that may be suspended on a word fetch at the same time.
MaxPending == 1

\* Longest word and longest message text (in pieces) drawn for the codec
\* round trip.
MaxWordLen == 2
MaxMsgLen == 2

----------------------------------------------------------------------------
(* Characters *)

\* string.lowercase, reduced to its first letters.
Lowercase == <<"a", "b">>

LowercaseSet == {Lowercase[i] : i \in 1..Len(Lowercase)}

\* unicode.lower() on the modelled characters.
LowerChar(c) ==
    CASE c = "A" -> "a"
      [] c = "B" -> "b"
      [] OTHER -> c

\* Whitespace removed by str.strip() with no argument.
Whitespace == {" ", "\n"}

\* U+FEFF as one character; its UTF-8 encoding is the bytes xEF xBB xBF.
BOM == "uFEFF"

\* Code points of the modelled characters, for sorted().
CodePoint(c) ==
    CASE c = "\n" -> 10
      [] c = " " -> 32
      [] c = "0" -> 48
      [] c = "1" -> 49
      [] c = ":" -> 58
      [] c = "?" -> 63
      [] c = "A" -> 65
      [] c = "B" -> 66
      [] c = "_" -> 95
      [] c = "a" -> 97
      [] c = "b" -> 98
      [] c = "c" -> 99
      [] c = "x" -> 120
      [] c = BOM -> 65279
      [] OTHER -> 0

----------------------------------------------------------------------------
(* Python string helpers *)

\* The elements of a sequence, as a set: set(s).
Range(s) == {s[i] : i \in 1..Len(s)}

\* s[i:] (1-based, inclusive start).
From(s, i) == SubSeq(s, i, Len(s))

\* unicode.lower()
lower(s) == [i \in 1..Len(s) |-> LowerChar(s[i])]

RECURSIVE lstrip(_, _)
\* s.lstrip(chars)
lstrip(s, chars) ==
    IF s # <<>> /\ Head(s) \in chars THEN lstrip(Tail(s), chars) ELSE s

RECURSIVE rstrip(_, _)
\* s.rstrip(chars)
rstrip(s, chars) ==
    IF s # <<>> /\ s[Len(s)] \in chars
    THEN rstrip(SubSeq(s, 1, Len(s) - 1), chars)
    ELSE s

\* s.strip()
strip(s) == rstrip(lstrip(s, Whitespace), Whitespace)

RECURSIVE sorted(_)
\* sorted(set of characters), ascending code point
sorted(S) ==
    IF S = {} THEN <<>>
    ELSE LET m == CHOOSE x \in S : \A y \in S : CodePoint(x) <= CodePoint(y)
         IN <<m>> \o sorted(S \ {m})

RECURSIVE split(_, _, _)
\* s.split(sep, maxsplit): the list of parts; a negative maxsplit is no limit
split(s, sep, maxsplit) ==
    IF maxsplit = 0 \/ sep \notin Range(s) THEN <<s>>
    ELSE LET i == CHOOSE k \in 1..Len(s) :
                      s[k] = sep /\ \A j \in 1..(k - 1) : s[j] # sep
         IN <<SubSeq(s, 1, i - 1)>> \o split(From(s, i + 1), sep, maxsplit - 1)

RECURSIVE utf8_encode(_)
\* unicode.encode("utf-8"): ASCII pieces are their own byte(s), U+FEFF is 3 bytes
utf8_encode(s) ==
    IF s = <<>> THEN <<>>
    ELSE (IF Head(s) = BOM THEN <<"xEF", "xBB", "xBF">> ELSE <<Head(s)>>)
         \o utf8_encode(Tail(s))

\* Whether b starts with the three-byte encoding of U+FEFF.
StartsBOM(b) == Len(b) >= 3 /\ b[1] = "xEF" /\ b[2] = "xBB" /\ b[3] = "xBF"

RECURSIVE utf8_valid(_)
\* Whether bytes.decode("utf-8") succeeds (no stray lead or continuation byte).
utf8_valid(b) ==
    IF b = <<>> THEN TRUE
    ELSE IF StartsBOM(b) THEN utf8_valid(From(b, 4))
    ELSE IF Head(b) \in {"xEF", "xBB", "xBF"} THEN FALSE
    ELSE utf8_valid(Tail(b))

RECURSIVE utf8_decode(_)
\* bytes.decode("utf-8", "ignore"); equals the strict decode on valid input
utf8_decode(b) ==
    IF b = <<>> THEN <<>>
    ELSE IF StartsBOM(b) THEN <<BOM>> \o utf8_decode(From(b, 4))
    ELSE IF Head(b) \in {"xEF", "xBB", "xBF"} THEN utf8_decode(Tail(b))
    ELSE <<Head(b)>> \o utf8_decode(Tail(b))

----------------------------------------------------------------------------
(* HangmanGame *)

NOT_DONE == 0
DONE == 1
DONE_WANTS_NEW == 2

\* The absent game (Python None) and a raised exception.
None == [tag |-> "None"]
Error == [tag |-> "Error"]

\* Whether a value is a HangmanGame (neither None nor an exception).
IsGame(g) == "word" \in DOMAIN g

MsgNewGame == <<"New game!">>
MsgNoInput == <<"Some input required please.">>
MsgSingleOnly == <<"Single characters only please.">>
MsgGameEnded == <<"Game ended.">>
MsgLettersOnly == <<"Letters of the alphabet only please.">>
MsgAlreadyGuessed(c) == <<"You've already guessed '", c, "'.">>
MsgContains(c) == <<"Word contains at least one '", c, "'! ", ":", "D">>
MsgContainsNo(c) == <<"Word contains no '", c, "'. ", ":", "(">>
MsgAdieu == <<"Adieu!">>

\* HangmanGame.__init__(word, guesses, msg)
HangmanGame(word, guesses, msg) ==
    [word |-> word, guesses |-> guesses, msg |-> msg, exit_code |-> NOT_DONE]

\* Mutant of NewHangmanGame: the default guessed set is one shared set, which
\* still holds a letter guessed in an earlier game.
NewHangmanGame_shared(word) == HangmanGame(word, {"a"}, MsgNewGame)

\* HangmanGame(word): guesses=None, msg="New game!"
NewHangmanGame(word) == HangmanGame(word, {}, MsgNewGame)

\* HangmanGame.won
won(g) == \A i \in 1..Len(g.word) : g.word[i] \in g.guesses

\* The (factor, msg) table of victory_message, factor as numerator/denominator.
VictoryTable ==
    << <<1, 1, <<"Flawless victory!">> >>,
       <<3, 2, <<"Epic victory!">> >>,
       <<2, 1, <<"Standard victory!">> >>,
       <<3, 1, <<"Sub-par victory!">> >>,
       <<4, 1, <<"Random victory!">> >> >>

MsgButtonMashing == <<"Button mashing!">>

\* Mutant of victory_for: a count equal to a threshold falls to the next tier.
victory_for_strict(uniques, guesses) ==
    LET hits == {k \in 1..Len(VictoryTable) :
                    guesses * VictoryTable[k][2] < uniques * VictoryTable[k][1]}
    IN IF hits = {} THEN MsgButtonMashing
       ELSE VictoryTable[CHOOSE k \in hits : \A j \in hits : k <= j][3]

\* The loop of victory_message on the two counts.
victory_for(uniques, guesses) ==
    LET hits == {k \in 1..Len(VictoryTable) :
                    guesses * VictoryTable[k][2] <= uniques * VictoryTable[k][1]}
    IN IF hits = {} THEN MsgButtonMashing
       ELSE VictoryTable[CHOOSE k \in hits : \A j \in hits : k <= j][3]

\* HangmanGame.victory_message
victory_message(g) ==
    victory_for(Cardinality(Range(g.word)), Cardinality(g.guesses))

\* Mutant of quit_branch: the exit code is set, the message is not.
quit_branch_keeps_msg(g) == [g EXCEPT !.exit_code = DONE]

\* event, branch message == '0'
quit_branch(g) == [g EXCEPT !.exit_code = DONE, !.msg = MsgGameEnded]

\* Mutant of won_branch: the exit code is left as it was.
won_branch_forgets(g) == g

\* Mutant of won_branch: asking for a new game clears the guessed letters.
won_branch_clears(g) == [g EXCEPT !.exit_code = DONE_WANTS_NEW, !.guesses = {}]

\* event, branch self.won()
won_branch(g) == [g EXCEPT !.exit_code = DONE_WANTS_NEW]

\* Mutant of guess_branch: the new letter replaces the guessed set.
guess_branch_replaces(g, c) ==
    [g EXCEPT !.guesses = {c},
              !.msg = IF c \in Range(g.word) THEN MsgContains(c)
                      ELSE MsgContainsNo(c)]

\* Mutant of guess_branch: a fresh guess puts the game back in play.
guess_branch_resumes(g, c) ==
    [g EXCEPT !.guesses = g.guesses \cup {c},
              !.exit_code = NOT_DONE,
              !.msg = IF c \in Range(g.word) THEN MsgContains(c)
                      ELSE MsgContainsNo(c)]

\* event, the else branch: a letter not guessed before
guess_branch(g, c) ==
    [g EXCEPT !.guesses = g.guesses \cup {c},
              !.msg = IF c \in Range(g.word) THEN MsgContains(c)
                      ELSE MsgContainsNo(c)]

\* Mutant of event_branch: a longer input counts as its first character.
event_branch_first_char(g, m) ==
    IF m = <<>> THEN [g EXCEPT !.msg = MsgNoInput]
    ELSE IF m[1] = "0" THEN quit_branch(g)
    ELSE IF won(g) THEN won_branch(g)
    ELSE IF m[1] \notin LowercaseSet THEN [g EXCEPT !.msg = MsgLettersOnly]
    ELSE IF m[1] \in g.guesses THEN [g EXCEPT !.msg = MsgAlreadyGuessed(m[1])]
    ELSE guess_branch(g, m[1])

\* Mutant of event_branch: without the string.lowercase test.
event_branch_any_char(g, m) ==
    IF m = <<>> THEN [g EXCEPT !.msg = MsgNoInput]
    ELSE IF Len(m) > 1 THEN [g EXCEPT !.msg = MsgSingleOnly]
    ELSE IF m = <<"0">> THEN quit_branch(g)
    ELSE IF won(g) THEN won_branch(g)
    ELSE IF m[1] \in g.guesses THEN [g EXCEPT !.msg = MsgAlreadyGuessed(m[1])]
    ELSE guess_branch(g, m[1])

\* The if / elif chain of HangmanGame.event, before the final won() check.
\* "message not in string.lowercase" is a substring test; on one character
\* it is membership.
event_branch(g, m) ==
    IF m = <<>> THEN [g EXCEPT !.msg = MsgNoInput]
    ELSE IF Len(m) > 1 THEN [g EXCEPT !.msg = MsgSingleOnly]
    ELSE IF m = <<"0">> THEN quit_branch(g)
    ELSE IF won(g) THEN won_branch(g)
    ELSE IF m[1] \notin LowercaseSet THEN [g EXCEPT !.msg = MsgLettersOnly]
    ELSE IF m[1] \in g.guesses THEN [g EXCEPT !.msg = MsgAlreadyGuessed(m[1])]
    ELSE guess_branch(g, m[1])

\* Mutant of event: the guess that completes the word also sets
\* exit_code to DONE_WANTS_NEW.
event_flips_on_win(g, message) ==
    LET g1 == event_branch(g, lower(message))
    IN IF won(g1)
       THEN [g1 EXCEPT !.msg = victory_message(g1),
                       !.exit_code = IF won(g) THEN @ ELSE DONE_WANTS_NEW]
       ELSE g1

\* HangmanGame.event
event(g, message) ==
    LET g1 == event_branch(g, lower(message))
    IN IF won(g1) THEN [g1 EXCEPT !.msg = victory_message(g1)] ELSE g1

\* HangmanGame.state
state(g) == utf8_encode(g.word \o <<":">> \o sorted(g.guesses) \o <<":">> \o g.msg)

\* Mutant of from_state: split(":") without the maxsplit of 2.
from_state_splits_all(s) ==
    IF ~utf8_valid(s) THEN Error
    ELSE LET parts == split(utf8_decode(s), ":", -1)
         IN IF Len(parts) # 3 THEN Error
            ELSE HangmanGame(parts[1], Range(parts[2]), parts[3])

\* Mutant of from_state: the parts a short record lacks are taken as empty.
from_state_pads(s) ==
    IF ~utf8_valid(s) THEN Error
    ELSE LET parts == split(utf8_decode(s), ":", 2) \o << <<>>, <<>> >>
         IN HangmanGame(parts[1], Range(parts[2]), parts[3])

\* HangmanGame.from_state: Error when decoding or the 3-way unpacking raises
from_state(s) ==
    IF ~utf8_valid(s) THEN Error
    ELSE LET parts == split(utf8_decode(s), ":", 2)
         IN IF Len(parts) # 3 THEN Error
            ELSE HangmanGame(parts[1], Range(parts[2]), parts[3])

\* HangmanGame.draw_board
draw_board(g) ==
    IF g.exit_code # NOT_DONE THEN MsgAdieu
    ELSE LET word == [i \in 1..Len(g.word) |->
                         IF g.word[i] \in g.guesses THEN g.word[i] ELSE "_"]
             prompt == IF won(g) THEN "Enter anything to start a new game"
                       ELSE "Enter next guess"
         IN g.msg \o <<"\n", "Word: ">> \o word
            \o <<"\n", "Letters guessed so far: ">> \o sorted(g.guesses)
            \o <<"\n", prompt, " (0 to quit):\n">>

----------------------------------------------------------------------------
(* Inputs *)

\* Bodies the word source may answer with (bytes), before any normalisation.
RawWords ==
    { <<"a">>,
      <<"xEF", "xBB", "xBF", "B", "a", "\n">>,
      <<>>,
      <<"a", ":", "b">> }

\* The callback _decode of random_word.
random_word_decode(raw) == strip(lstrip(utf8_decode(raw), {BOM, "uFFFE"}))

\* The word new_game passes to HangmanGame: word.strip().lower()
new_game_word(raw) == lower(strip(random_word_decode(raw)))

Words == {new_game_word(raw) : raw \in RawWords}

\* data['message'] values the transport may deliver.
Messages ==
    { <<>>, <<"0">>, <<"a">>, <<" ", "B", "\n">>, <<"1">>, <<"a", "b">> }

\* Strings passed to event(): the stripped messages.
Inputs == {strip(m) : m \in Messages}

----------------------------------------------------------------------------
(* HangmanWorker *)

\* Before the first call no input has been passed: the empty text.
NoInput == <<>>
NoGame == [tag |-> "NoGame"]

\* The sessions the transport delivers events for, as
\* <<data['sender'], data['transport_session_id']>>: one player over two
\* sessions and a second player over one.
Sessions ==
    { << <<"+", "1">>, "s1" >>, << <<"+", "1">>, "s2" >>, << <<"2">>, "s3" >> }

\* The messages delivered in a session: every kind for the first player, a
\* guess and the quit key for the second.
SessionMessages(msisdn) ==
    IF msisdn = <<"+", "1">> THEN Messages ELSE { <<"a">>, <<"0">> }

\* self.r_prefix, "hangman:<transport_name>:<ussd_code>".
r_prefix == <<"hangman", ":", "transport_name", ":", "ussd_code">>

\* vumi.utils.normalize_msisdn: the number in its '+' form.
normalize_msisdn(msisdn) ==
    IF msisdn # <<>> /\ Head(msisdn) = "+" THEN msisdn ELSE <<"+">> \o msisdn

\* HangmanWorker.game_key
game_key(msisdn) == r_prefix \o <<"#">> \o lstrip(normalize_msisdn(msisdn), {"+"})

\* Mutant of load_game: a missing game is made up on the spot.
load_game_fabricates(st, msisdn) ==
    IF game_key(msisdn) \in DOMAIN st THEN from_state(st[game_key(msisdn)])
    ELSE NewHangmanGame(<<"a">>)

\* HangmanWorker.load_game
load_game(st, msisdn) ==
    IF game_key(msisdn) \in DOMAIN st THEN from_state(st[game_key(msisdn)])
    ELSE None

\* HangmanWorker.new_game, once random_word() has answered with raw
new_game(raw) == NewHangmanGame(new_game_word(raw))

\* HangmanWorker.save_game: the store after r_server.set
save_game(st, msisdn, g) ==
    [k \in DOMAIN st \cup {game_key(msisdn)} |->
        IF k = game_key(msisdn) THEN state(g) ELSE st[k]]

\* Mutant of delete_game: nothing is deleted.
delete_game_skips(st, msisdn) == st

\* HangmanWorker.delete_game: the store after r_server.delete
delete_game(st, msisdn) == [k \in DOMAIN st \ {game_key(msisdn)} |-> st[k]]

\* Mutant of close_session: the saved game is cleaned up.
close_session_cleans(st, msisdn) == delete_game(st, msisdn)

\* HangmanWorker.close_session: the store after the call
close_session(st, msisdn) == st

\* What one handler step did: the handler (op, msisdn, sid), how far it got
\* (phase), its local variable game, the message handed to reply()/end(), and
\* the game it passed to save_game (None when it did not call it).
Turn(op, msisdn, sid, phase, g, sent, text, error) ==
    [op |-> op, msisdn |-> msisdn, sid |-> sid, phase |-> phase, game |-> g,
     sent |-> sent, text |-> text, error |-> error, saved |-> None]

\* The step t, in which the handler called save_game(msisdn, g).
Saving(t, g) == [t EXCEPT !.saved = g]

NoTurn == Turn("none", <<>>, "", "done", None, "none", <<>>, "none")

\* A handler suspended at the yield of new_game.
Handler(op, msisdn, sid) == [op |-> op, msisdn |-> msisdn, sid |-> sid]

Init ==
    /\ store = [k \in {} |-> <<>>]
    /\ pending = {}
    /\ turn = NoTurn
    /\ stale = {}
    /\ game = None
    /\ input = NoInput
    /\ decoded = NoGame

\* The handlers among P that loaded the key of msisdn before this write.
SameKey(P, msisdn) == {h \in P : game_key(h.msisdn) = game_key(msisdn)}

\* The handler suspends on the word fetch; bounded by MaxPending.
Suspend(op, msisdn, sid, g) ==
    /\ Cardinality(pending) < MaxPending
    /\ Handler(op, msisdn, sid) \notin pending
    /\ pending' = pending \cup {Handler(op, msisdn, sid)}
    /\ turn' = Turn(op, msisdn, sid, "fetching", g, "none", <<>>, "none")
    /\ UNCHANGED <<store, stale>>

\* The handler ends with an exception; nothing is sent.
Fail(op, msisdn, sid, g, error) ==
    /\ turn' = Turn(op, msisdn, sid, "failed", g, "none", <<>>, error)
    /\ UNCHANGED <<store, pending, stale>>

\* HangmanWorker.new_session, up to its yield or its end
NewSession(msisdn, sid) ==
    LET g == load_game(store, msisdn)
    IN /\ IF g = Error THEN Fail("new_session", msisdn, sid, None, "ValueError")
          ELSE IF g = None THEN Suspend("new_session", msisdn, sid, None)
          ELSE /\ turn' = Turn("new_session", msisdn, sid, "done", g,
                               "reply", draw_board(g), "none")
               /\ UNCHANGED <<store, pending, stale>>
       /\ input' = NoInput
       /\ UNCHANGED <<game, decoded>>

\* HangmanWorker.close_session
CloseSession(msisdn, sid) ==
    /\ store' = close_session(store, msisdn)
    /\ turn' = Turn("close_session", msisdn, sid, "done", None, "none", <<>>, "none")
    /\ input' = NoInput
    /\ UNCHANGED <<pending, stale, game, decoded>>

\* Mutant of ResumeSession: the game is saved right after event(), whatever
\* its exit code, before the branches on it.
ResumeSession_saves_first(msisdn, sid, message) ==
    LET loaded == load_game(store, msisdn)
        g == event(loaded, strip(message))
    IN /\ IF loaded = Error
          THEN Fail("resume_session", msisdn, sid, None, "ValueError")
          ELSE IF loaded = None
          THEN Fail("resume_session", msisdn, sid, None, "AttributeError")
          ELSE IF g.exit_code = DONE
          THEN /\ store' = delete_game(save_game(store, msisdn, g), msisdn)
               /\ turn' = Saving(Turn("resume_session", msisdn, sid, "done", g,
                                      "end", draw_board(g), "none"), g)
               /\ UNCHANGED <<pending, stale>>
          ELSE IF g.exit_code = DONE_WANTS_NEW
          THEN /\ Cardinality(pending) < MaxPending
               /\ Handler("resume_session", msisdn, sid) \notin pending
               /\ pending' = pending \cup {Handler("resume_session", msisdn, sid)}
               /\ turn' = Saving(Turn("resume_session", msisdn, sid, "fetching",
                                      g, "none", <<>>, "none"), g)
               /\ store' = save_game(store, msisdn, g)
               /\ stale' = stale \cup SameKey(pending, msisdn)
          ELSE /\ store' = save_game(store, msisdn, g)
               /\ turn' = Saving(Turn("resume_session", msisdn, sid, "done", g,
                                      "reply", draw_board(g), "none"), g)
               /\ stale' = stale \cup SameKey(pending, msisdn)
               /\ UNCHANGED pending
       /\ input' = IF IsGame(loaded) THEN strip(message) ELSE NoInput
       /\ UNCHANGED <<game, decoded>>

\* HangmanWorker.resume_session, up to its yield or its end
ResumeSession(msisdn, sid, message) ==
    LET loaded == load_game(store, msisdn)
        g == event(loaded, strip(message))
    IN /\ IF loaded = Error
          THEN Fail("resume_session", msisdn, sid, None, "ValueError")
          ELSE IF loaded = None
          THEN Fail("resume_session", msisdn, sid, None, "AttributeError")
          ELSE IF g.exit_code = DONE
          THEN /\ store' = delete_game(store, msisdn)
               /\ turn' = Turn("resume_session", msisdn, sid, "done", g,
                               "end", draw_board(g), "none")
               /\ UNCHANGED <<pending, stale>>
          ELSE IF g.exit_code = DONE_WANTS_NEW
          THEN Suspend("resume_session", msisdn, sid, g)
          ELSE /\ store' = save_game(store, msisdn, g)
               /\ turn' = Saving(Turn("resume_session", msisdn, sid, "done", g,
                                      "reply", draw_board(g), "none"), g)
               /\ stale' = stale \cup SameKey(pending, msisdn)
               /\ UNCHANGED pending
       /\ input' = IF IsGame(loaded) THEN strip(message) ELSE NoInput
       /\ UNCHANGED <<game, decoded>>

\* Mutant of FetchDone: the reply goes to the session of the latest event
\* the worker has seen, not to the session that started the fetch.
FetchDone_latest_session(h, raw) ==
    LET g == new_game(raw)
    IN /\ h \in pending
       /\ pending' = pending \ {h}
       /\ store' = save_game(store, h.msisdn, g)
       /\ stale' = (stale \cup SameKey(pending, h.msisdn)) \ {h}
       /\ turn' = Saving(Turn(h.op, h.msisdn, turn.sid, "fetched", g,
                              "reply", draw_board(g), "none"), g)
       /\ input' = NoInput
       /\ UNCHANGED <<game, decoded>>

\* random_word() answers raw: the suspended handler h saves and replies.
FetchDone(h, raw) ==
    LET g == new_game(raw)
    IN /\ h \in pending
       /\ pending' = pending \ {h}
       /\ store' = save_game(store, h.msisdn, g)
       /\ stale' = (stale \cup SameKey(pending, h.msisdn)) \ {h}
       /\ turn' = Saving(Turn(h.op, h.msisdn, h.sid, "fetched", g,
                              "reply", draw_board(g), "none"), g)
       /\ input' = NoInput
       /\ UNCHANGED <<game, decoded>>

\* Mutant of FetchFail: the failure is caught and the fetch started again,
\* the handler staying suspended.
FetchFail_retries(h) ==
    /\ h \in pending
    /\ turn' = Turn(h.op, h.msisdn, h.sid, "fetch_failed", None,
                    "none", <<>>, "FetchError")
    /\ input' = NoInput
    /\ UNCHANGED <<pending, stale, store, game, decoded>>

\* random_word() fails: the failure leaves the suspended handler h.
FetchFail(h) ==
    /\ h \in pending
    /\ pending' = pending \ {h}
    /\ stale' = stale \ {h}
    /\ turn' = Turn(h.op, h.msisdn, h.sid, "fetch_failed", None,
                    "none", <<>>, "FetchError")
    /\ input' = NoInput
    /\ UNCHANGED <<store, game, decoded>>

Next ==
    \/ \E s \in Sessions : NewSession(s[1], s[2])
    \/ \E s \in Sessions : CloseSession(s[1], s[2])
    \/ \E s \in Sessions : \E msg \in SessionMessages(s[1]) :
           ResumeSession(s[1], s[2], msg)
    \/ \E h \in pending, raw \in RawWords : FetchDone(h, raw)
    \/ \E h \in pending : FetchFail(h)

Spec == Init /\ [][Next]_vars

----------------------------------------------------------------------------
(* CorruptSpec: the worker over a store that already holds a record which
   state() did not write *)

\* Values r_server.get may return for a key that were truncated or written
\* by something else: no delimiter (empty or not) and one delimiter.
CorruptRecords == { <<>>, <<"a">>, <<"a", ":", "b">> }

\* The player whose entry is corrupt.
CorruptPlayer == <<"+", "1">>

CorruptInit ==
    /\ store \in {[k \in {game_key(CorruptPlayer)} |-> r] : r \in CorruptRecords}
    /\ pending = {}
    /\ turn = NoTurn
    /\ stale = {}
    /\ game = None
    /\ input = NoInput
    /\ decoded = NoGame

CorruptSpec == CorruptInit /\ [][Next]_vars

----------------------------------------------------------------------------
(* VictorySpec: victory_message on games over the whole alphabet *)

\* string.lowercase in full
Alphabet ==
    << "a", "b", "c", "d", "e", "f", "g", "h", "i", "j", "k", "l", "m",
       "n", "o", "p", "q", "r", "s", "t", "u", "v", "w", "x", "y", "z" >>

\* Won games: the word has the first u letters, once each or with its first
\* letter doubled, and the first n letters have been guessed.
VictoryGames ==
    {HangmanGame(pre \o SubSeq(Alphabet, 1, u),
                 Range(SubSeq(Alphabet, 1, n)), MsgNewGame) :
        pre \in {<<>>, <<"a">>},
        u \in 1..Len(Alphabet), n \in 1..Len(Alphabet)}

VictoryInit ==
    /\ game \in {g \in VictoryGames : won(g)}
    /\ input = NoInput
    /\ decoded = NoGame
    /\ store = [k \in {} |-> <<>>]
    /\ pending = {}
    /\ turn = NoTurn
    /\ stale = {}

\* self.msg = self.victory_message()
VictoryMessage ==
    /\ game.msg = MsgNewGame
    /\ game' = [game EXCEPT !.msg = victory_message(game)]
    /\ UNCHANGED <<input, decoded, store, pending, turn, stale>>

VictoryNext == VictoryMessage

VictorySpec == VictoryInit /\ [][VictoryNext]_vars

----------------------------------------------------------------------------
(* GameSpec: one HangmanGame instance receiving event() calls *)


GameInit ==
    /\ game \in {NewHangmanGame(w) : w \in Words}
    /\ input = NoInput
    /\ decoded = NoGame
    /\ store = [k \in {} |-> <<>>]
    /\ pending = {}
    /\ turn = NoTurn
    /\ stale = {}

Event(m) ==
    /\ game' = event(game, m)
    /\ input' = m
    /\ UNCHANGED <<decoded, store, pending, turn, stale>>

\* Strings passed to event() on the instance: the stripped messages, an
\* upper-case letter and a punctuation mark.
GameInputs == Inputs \cup { <<"A">>, <<"?">> }

GameNext == \E m \in GameInputs : Event(m)

GameSpec == GameInit /\ [][GameNext]_vars

----------------------------------------------------------------------------
(* CodecSpec: state() followed by from_state() on one game *)

\* All sequences over S of length at most n.
SeqsUpTo(S, n) == UNION {[1..k -> S] : k \in 0..n}

\* Characters of the words and guessed sets drawn for the codec.
CodecChars == LowercaseSet \cup {":"}

\* Pieces of the message texts drawn for the codec.
CodecMsgPieces == {"x", ":", BOM}

\* The games handed to state(): any word, guessed set, msg and exit code.
CodecGames ==
    {[HangmanGame(w, G, m) EXCEPT !.exit_code = e] :
        w \in SeqsUpTo(CodecChars, MaxWordLen),
        G \in SUBSET CodecChars,
        m \in SeqsUpTo(CodecMsgPieces, MaxMsgLen) \cup {MsgNewGame, MsgContains("a")},
        e \in {NOT_DONE, DONE, DONE_WANTS_NEW}}

CodecInit ==
    /\ game \in CodecGames
    /\ decoded = NoGame
    /\ input = NoInput
    /\ store = [k \in {} |-> <<>>]
    /\ pending = {}
    /\ turn = NoTurn
    /\ stale = {}

\* decoded = HangmanGame.from_state(game.state())
RoundTrip ==
    /\ decoded = NoGame
    /\ decoded' = from_state(state(game))
    /\ UNCHANGED <<game, input, store, pending, turn, stale>>

CodecNext == RoundTrip

CodecSpec == CodecInit /\ [][CodecNext]_vars

----------------------------------------------------------------------------
(* Claims about HangmanGame.event, under GameSpec *)

\* A word as the game expects it: non-empty, lowercase letters only.
ValidWord(w) == w # <<>> /\ Range(w) \subseteq LowercaseSet

\* The lowercased input of the step is one character.
SingleChar(m) == Len(lower(m)) = 1

\* The lowercased input of the step is one letter of string.lowercase.
SingleLetter(m) == SingleChar(m) /\ lower(m)[1] \in LowercaseSet

\* C1 as stated: event("0") on a game with exit_code NOT_DONE, whatever its
\* word and guesses, leaves exit_code = DONE and msg = "Game ended.".
\* (Stated here for games over a valid word only; it fails even there.)
C1_QuitAlwaysGameEnded ==
    [][(ValidWord(game.word) /\ game.exit_code = NOT_DONE /\ input' = <<"0">>)
         => (game'.exit_code = DONE /\ game'.msg = MsgGameEnded)]_vars

\* C1 amended: event("0") on a game with exit_code NOT_DONE leaves
\* exit_code = DONE; msg is "Game ended." when the word is not fully guessed,
\* and the victory message when it is.
C1_Quit ==
    [][(game.exit_code = NOT_DONE /\ input' = <<"0">>)
         => /\ game'.exit_code = DONE
            /\ game'.word = game.word
            /\ game'.guesses = game.guesses
            /\ game'.msg = IF won(game) THEN victory_message(game)
                           ELSE MsgGameEnded]_vars

\* C1 witness: a game with earlier guesses was quit with "0".
C1_Witness ==
    /\ input = <<"0">>
    /\ game.exit_code = DONE
    /\ game.msg = MsgGameEnded
    /\ game.guesses # {}

\* C2 as stated: on a won game event(input) sets exit_code = DONE_WANTS_NEW
\* for any input whatsoever.
\* (Stated here for games over a valid word only; it fails even there.)
C2_AnyInputWantsNew ==
    [][(ValidWord(game.word) /\ won(game))
         => game'.exit_code = DONE_WANTS_NEW]_vars

\* C2 amended: on a won game event(input) sets exit_code = DONE_WANTS_NEW for
\* every input that lowercases to a single character other than "0"; "0"
\* sets DONE, and the empty and multi-character inputs leave exit_code as it
\* was.
C2_PostWin ==
    [][won(game)
         => game'.exit_code =
              IF input' = <<"0">> THEN DONE
              ELSE IF SingleChar(input') THEN DONE_WANTS_NEW
              ELSE game.exit_code]_vars

\* C2 witness: a won game took a further single-character input.
C2_Witness ==
    /\ ValidWord(game.word)
    /\ won(game)
    /\ game.exit_code = DONE_WANTS_NEW
    /\ input = <<"1">>

\* C3 as stated: for every game state, a single lowercase letter not yet
\* guessed is added to the guessed set and nothing is removed.
\* (Stated here for games over a valid word only; it fails even there.)
C3_FreshLetterAlwaysAdded ==
    [][(ValidWord(game.word) /\ SingleLetter(input')
          /\ lower(input')[1] \notin game.guesses)
         => game'.guesses = game.guesses \cup {lower(input')[1]}]_vars

\* C3 amended: for every game whose word is not yet fully guessed, a single
\* lowercase letter not yet guessed is added to the guessed set and nothing
\* is removed (on a won game the guessed set is left unchanged).
C3_FreshLetter ==
    [][(SingleLetter(input') /\ lower(input')[1] \notin game.guesses)
         => game'.guesses = IF won(game) THEN game.guesses
                            ELSE game.guesses \cup {lower(input')[1]}]_vars

\* C3 witness: "B", lowercased, was just added to the guessed set {"a"} of
\* the word "ba".
C3_Witness ==
    /\ input = <<"B">>
    /\ game.word = <<"b", "a">>
    /\ game.guesses = {"a", "b"}
    /\ game.exit_code = NOT_DONE

\* C4 as stated: once exit_code has left NOT_DONE no later event() changes it.
\* (Stated here for games over a valid word only; it fails even there.)
C4_ExitCodeFrozen ==
    [][(ValidWord(game.word) /\ game.exit_code # NOT_DONE)
         => game'.exit_code = game.exit_code]_vars

\* C4 amended: once exit_code has left NOT_DONE no later event() returns it
\* to NOT_DONE (it may still move between DONE and DONE_WANTS_NEW).
C4_NeverBackToNotDone ==
    [][game.exit_code # NOT_DONE => game'.exit_code # NOT_DONE]_vars

\* C4 witness: a game that was quit took a later event and is still DONE.
C4_Witness ==
    /\ game.exit_code = DONE
    /\ game.msg = MsgLettersOnly

----------------------------------------------------------------------------
(* Claim about the codec, under CodecSpec *)

\* The game's word and guessed letters are lowercase letters only.
OnlyLowercase(g) ==
    Range(g.word) \subseteq LowercaseSet /\ g.guesses \subseteq LowercaseSet

\* C8: for every game whose word and guessed letters are lowercase letters
\* only, with any msg (':' included), from_state(state(g)) has the same word,
\* the same guessed set, exactly the same msg, and exit_code NOT_DONE.
C8_RoundTrip ==
    (decoded # NoGame /\ OnlyLowercase(game))
      => /\ IsGame(decoded)
         /\ decoded.word = game.word
         /\ decoded.guesses = game.guesses
         /\ decoded.msg = game.msg
         /\ decoded.exit_code = NOT_DONE

\* C8 witness: a finished game whose msg holds two ':' went through the codec.
C8_Witness ==
    /\ decoded # NoGame
    /\ IsGame(decoded)
    /\ game.word = <<"a", "b">>
    /\ game.guesses = {"a", "b"}
    /\ game.msg = <<":", ":">>
    /\ game.exit_code = DONE
    /\ decoded.msg = <<":", ":">>

----------------------------------------------------------------------------
(* Claims about the HangmanWorker handlers, under Spec *)

\* The store key of the handler a turn belongs to.
KeyOf(t) == game_key(t.msisdn)

\* The step is the first part of a handler: from its entry to its first
\* yield, its end or its exception.
Starts(op) ==
    turn'.op = op /\ turn'.phase \in {"done", "fetching", "failed"}

\* The last step was a continue turn whose event left exit_code = code.
ContinueLeft(t, code) ==
    /\ t.op = "resume_session"
    /\ t.phase \in {"done", "fetching"}
    /\ IsGame(t.game)
    /\ t.game.exit_code = code

\* C5, the turn itself: the entry is deleted and "Adieu!" ends the session.
C5_QuitTurn ==
    ContinueLeft(turn, DONE)
      => /\ turn.sent = "end"
         /\ turn.text = MsgAdieu
         /\ KeyOf(turn) \notin DOMAIN store

\* C5, the next session start of that player: it suspends on a word fetch
\* and writes nothing before the word is there.
C5_NextStart ==
    (ContinueLeft(turn, DONE) /\ Starts("new_session")
       /\ KeyOf(turn') = KeyOf(turn))
      => /\ turn'.phase = "fetching"
         /\ Handler("new_session", turn'.msisdn, turn'.sid) \in pending'
         /\ store' = store

\* C5, the fetch of a session start completing: a fresh game is stored.
C5_FreshGame ==
    (turn.op = "new_session" /\ turn.phase = "fetched")
      => /\ turn.game = NewHangmanGame(turn.game.word)
         /\ KeyOf(turn) \in DOMAIN store
         /\ store[KeyOf(turn)] = state(turn.game)

\* C5: on a continue turn whose event leaves exit_code = DONE the controller
\* deletes the player's store entry and ends the session with exactly
\* "Adieu!"; the store then holds no entry under the player's key, so the
\* player's next session start fetches a new word and creates a fresh game.
C5_Quit == [](C5_QuitTurn /\ C5_FreshGame) /\ [][C5_NextStart]_vars

\* C5 witness: a player who had guessed a letter quit; the entry is gone.
C5_Witness ==
    /\ ContinueLeft(turn, DONE)
    /\ turn.game.guesses # {}
    /\ turn.sent = "end"
    /\ turn.text = MsgAdieu
    /\ KeyOf(turn) \notin DOMAIN store

\* C6, the continue turn: the handler suspends on the fetch of a new word.
C6_Fetches ==
    (Starts("resume_session") /\ ContinueLeft(turn', DONE_WANTS_NEW))
      => /\ turn'.phase = "fetching"
         /\ turn'.sent = "none"
         /\ Handler("resume_session", turn'.msisdn, turn'.sid) \in pending'
         /\ store' = store

\* C6, the fetch completing: a fresh game is stored under the player's key
\* and its board is sent as a non-terminal reply.
C6_FreshGame ==
    (turn.op = "resume_session" /\ turn.phase = "fetched")
      => /\ turn.game.guesses = {}
         /\ turn.game.msg = MsgNewGame
         /\ turn.game.exit_code = NOT_DONE
         /\ KeyOf(turn) \in DOMAIN store
         /\ store[KeyOf(turn)] = state(turn.game)
         /\ turn.sent = "reply"
         /\ turn.text = draw_board(turn.game)
         /\ turn.text # MsgAdieu

\* C6: on a continue turn whose event leaves exit_code = DONE_WANTS_NEW the
\* controller fetches a new word, persists a fresh game (no guesses, msg
\* "New game!", exit_code NOT_DONE) under the player's key and sends that
\* game's board as a non-terminal reply, never "Adieu!"; the input that
\* triggered the restart is not applied to the fresh game.
C6_Restart == []C6_FreshGame /\ [][C6_Fetches]_vars

\* C6 witness: a restart completed with a fetched two-letter word.
C6_Witness ==
    /\ turn.op = "resume_session"
    /\ turn.phase = "fetched"
    /\ turn.game.word = <<"b", "a">>
    /\ turn.sent = "reply"
    /\ store[KeyOf(turn)] = state(turn.game)

\* C7, close_session: the store and the suspended handlers are untouched.
C7_CloseKeeps ==
    turn'.op = "close_session" => (store' = store /\ pending' = pending)

\* C7, new_session on a stored record: no fetch, no write, the reply is the
\* board of the stored game.
C7_StartResumes ==
    (Starts("new_session") /\ KeyOf(turn') \in DOMAIN store
       /\ IsGame(from_state(store[KeyOf(turn')])))
      => /\ store' = store
         /\ pending' = pending
         /\ turn'.phase = "done"
         /\ turn'.game = from_state(store[KeyOf(turn')])
         /\ turn'.sent = "reply"
         /\ turn'.text = draw_board(turn'.game)

\* C7: close_session leaves the store unchanged, and a later new_session for
\* a player whose key has a stored record fetches no word, writes nothing
\* and replies with the board of the stored game (its word, guessed letters
\* and last message as they were stored before the close).
C7_SurvivesClose == [][C7_CloseKeeps /\ C7_StartResumes]_vars

\* C7 witness: a session was closed while the store holds the player's game
\* with a guessed letter.
C7_Witness ==
    /\ turn.op = "close_session"
    /\ KeyOf(turn) \in DOMAIN store
    /\ IsGame(from_state(store[KeyOf(turn)]))
    /\ from_state(store[KeyOf(turn)]).guesses = {"a"}
    /\ from_state(store[KeyOf(turn)]).word = <<"b", "a">>

\* C9 as stated: new-game construction fails unless the normalized word is
\* non-empty and over a-z, so every game a handler constructs or writes to
\* the store has a valid word.
C9_WordsValid ==
    /\ IsGame(turn.game) => ValidWord(turn.game.word)
    /\ \A k \in DOMAIN store :
          /\ IsGame(from_state(store[k]))
          /\ ValidWord(from_state(store[k]).word)

\* C10: resume_session for a player whose key has no store entry fails (the
\* error is surfaced, no reply is sent), fetches no word and leaves the
\* store unchanged.
C10_NoGame ==
    [][(Starts("resume_session") /\ KeyOf(turn') \notin DOMAIN store)
         => /\ turn'.phase = "failed"
            /\ turn'.error = "AttributeError"
            /\ turn'.sent = "none"
            /\ pending' = pending
            /\ store' = store]_vars

\* C10 witness: a continue event failed for a player with no stored game
\* while another player's game is stored.
C10_Witness ==
    /\ turn.op = "resume_session"
    /\ turn.phase = "failed"
    /\ turn.error = "AttributeError"
    /\ KeyOf(turn) \notin DOMAIN store
    /\ DOMAIN store # {}

----------------------------------------------------------------------------
(* Claims C11..C20 *)

\* The record splits on ':' (at most twice) into fewer than three parts.
FewerThanThreeParts(rec) == Len(split(utf8_decode(rec), ":", 2)) < 3

\* The step is the first part of a start or continue handler for a player
\* whose stored record has fewer than three parts.
LoadsShortRecord ==
    /\ Starts("new_session") \/ Starts("resume_session")
    /\ KeyOf(turn') \in DOMAIN store
    /\ FewerThanThreeParts(store[KeyOf(turn')])

\* C11: when the stored record of a player splits on ':' into fewer than
\* three parts, from_state fails with an error and returns no game, and the
\* start or continue turn that loaded it sends no reply, starts no fetch and
\* leaves the store as it was.
C11_CorruptRecord ==
    [][LoadsShortRecord
         => /\ from_state(store[KeyOf(turn')]) = Error
            /\ turn'.phase = "failed"
            /\ turn'.error = "ValueError"
            /\ turn'.game = None
            /\ turn'.sent = "none"
            /\ store' = store
            /\ pending' = pending]_vars

C11_Witness ==
    /\ turn.op = "resume_session"
    /\ turn.phase = "failed"
    /\ turn.error = "ValueError"
    /\ turn.sent = "none"
    /\ KeyOf(turn) \in DOMAIN store
    /\ store[KeyOf(turn)] = <<"a", ":", "b">>

\* The handler the step belongs to, as it sits in pending while suspended.
HandlerOf(t) == Handler(t.op, t.msisdn, t.sid)

\* C12, the steps of the handler: suspending on the fetch writes nothing;
\* when the fetch fails the failure leaves the handler, which is not started
\* again, sends nothing and writes nothing.
C12_FailureStep ==
    /\ turn'.phase = "fetching" => store' = store
    /\ turn'.phase = "fetch_failed"
         => /\ HandlerOf(turn') \in pending
            /\ pending' = pending \ {HandlerOf(turn')}
            /\ turn'.error = "FetchError"
            /\ turn'.sent = "none"
            /\ turn'.text = <<>>
            /\ store' = store

\* C12, the store while the fetch is out (no other handler having saved
\* under the key meanwhile): a start has created no entry; a restart finds
\* the won game still stored, unless another turn quit it.
C12_StoreAsBefore ==
    \A h \in pending \ stale :
        /\ h.op = "new_session" => game_key(h.msisdn) \notin DOMAIN store
        /\ (h.op = "resume_session" /\ game_key(h.msisdn) \in DOMAIN store)
             => /\ IsGame(from_state(store[game_key(h.msisdn)]))
                /\ won(from_state(store[game_key(h.msisdn)]))

\* C12: when the word fetch started by new_session (store miss) or by
\* resume_session (DONE_WANTS_NEW) fails, the failure propagates out of the
\* handler with no retry, no reply is sent, and the handler has left the
\* store as it was before the fetch started.
C12_FetchFailure == [][C12_FailureStep]_vars /\ []C12_StoreAsBefore

C12_Witness ==
    /\ turn.op = "resume_session"
    /\ turn.phase = "fetch_failed"
    /\ turn.sent = "none"
    /\ pending = {}
    /\ KeyOf(turn) \in DOMAIN store
    /\ won(from_state(store[KeyOf(turn)]))

\* The number of distinct letters of the word of g.
Uniques(g) == Cardinality(Range(g.word))

\* The number of guessed letters of g.
Guessed(g) == Cardinality(g.guesses)

\* C13: for every pair with 1 <= uniques <= guesses <= 26, victory_message
\* gives the message of the first of the thresholds 1, 1.5, 2, 3, 4 times
\* uniques that guesses does not exceed (equality counts as that tier), and
\* "Button mashing!" when guesses > 4 x uniques.
C13_VictoryTiers ==
    LET u == Uniques(game)
        n == Guessed(game)
    IN (game.msg # MsgNewGame /\ 1 <= u /\ u <= n /\ n <= Len(Alphabet))
         => /\ (n <= u) => game.msg = <<"Flawless victory!">>
            /\ (u < n /\ 2 * n <= 3 * u) => game.msg = <<"Epic victory!">>
            /\ (3 * u < 2 * n /\ n <= 2 * u) => game.msg = <<"Standard victory!">>
            /\ (2 * u < n /\ n <= 3 * u) => game.msg = <<"Sub-par victory!">>
            /\ (3 * u < n /\ n <= 4 * u) => game.msg = <<"Random victory!">>
            /\ (4 * u < n) => game.msg = <<"Button mashing!">>

C13_Witness ==
    /\ Uniques(game) = 3
    /\ Guessed(game) = 5
    /\ game.msg = <<"Standard victory!">>

\* The game the handler of this step loaded: the decoded entry of its key.
Loaded == from_state(store[KeyOf(turn')])

\* The step is the first part of a continue turn that called event() on the
\* game it loaded.
Continues ==
    /\ Starts("resume_session")
    /\ IsGame(turn'.game)
    /\ KeyOf(turn') \in DOMAIN store
    /\ IsGame(Loaded)

PromptNewGame == "Enter anything to start a new game"

\* C14: on the continue turn whose letter completes the word (won() false on
\* the loaded game, true after event), exit_code stays NOT_DONE and msg is the
\* victory message; the handler saves this won game and sends a non-terminal
\* reply with the prompt "Enter anything to start a new game"; a turn that
\* leaves DONE_WANTS_NEW has loaded a game that was won already.
C14_WinDelayed ==
    [][/\ (Continues /\ ~won(Loaded) /\ won(turn'.game))
            => /\ turn'.game.exit_code = NOT_DONE
               /\ turn'.game.msg = victory_message(turn'.game)
               /\ turn'.phase = "done"
               /\ pending' = pending
               /\ store' = save_game(store, turn'.msisdn, turn'.game)
               /\ from_state(store'[KeyOf(turn')]) = turn'.game
               /\ turn'.sent = "reply"
               /\ turn'.text = draw_board(turn'.game)
               /\ PromptNewGame \in Range(turn'.text)
       /\ (Continues /\ turn'.game.exit_code = DONE_WANTS_NEW) => won(Loaded)]_vars

C14_Witness ==
    /\ turn.op = "resume_session"
    /\ turn.phase = "done"
    /\ turn.sent = "reply"
    /\ input = <<"B">>
    /\ IsGame(turn.game)
    /\ turn.game.word = <<"b", "a">>
    /\ won(turn.game)
    /\ turn.game.exit_code = NOT_DONE
    /\ PromptNewGame \in Range(turn.text)
    /\ store[KeyOf(turn)] = state(turn.game)

\* C15: once won() is true of a game it stays true after every further
\* event() call on it: no event() removes a letter from the guessed set and
\* none changes the word.
C15_WonMonotonic ==
    [][/\ game.guesses \subseteq game'.guesses
       /\ game'.word = game.word
       /\ won(game) => won(game')]_vars

C15_Witness ==
    /\ game.word = <<"b", "a">>
    /\ won(game)
    /\ game.exit_code = DONE_WANTS_NEW
    /\ input = <<"A">>

\* C16: on a continue turn that loaded a game for which won() is false,
\* event("") sets msg to "Some input required please." and event(s) with
\* len(s) > 1 sets msg to "Single characters only please."; word, guessed
\* letters and exit_code stay as loaded; the handler saves the game and sends
\* a non-terminal reply.
C16_PureMessageUpdate ==
    [][(Continues /\ ~won(Loaded) /\ (input' = <<>> \/ Len(input') > 1))
         => /\ input' = <<>> => turn'.game.msg = <<"Some input required please.">>
            /\ Len(input') > 1
                 => turn'.game.msg = <<"Single characters only please.">>
            /\ turn'.game.word = Loaded.word
            /\ turn'.game.guesses = Loaded.guesses
            /\ turn'.game.exit_code = Loaded.exit_code
            /\ turn'.game.exit_code = NOT_DONE
            /\ turn'.phase = "done"
            /\ pending' = pending
            /\ store' = save_game(store, turn'.msisdn, turn'.game)
            /\ turn'.sent = "reply"
            /\ turn'.text = draw_board(turn'.game)
            /\ turn'.text # MsgAdieu]_vars

C16_Witness ==
    /\ turn.op = "resume_session"
    /\ turn.phase = "done"
    /\ input = <<"a", "b">>
    /\ IsGame(turn.game)
    /\ ~won(turn.game)
    /\ turn.game.guesses = {"b"}
    /\ turn.game.msg = <<"Single characters only please.">>
    /\ turn.sent = "reply"
    /\ store[KeyOf(turn)] = state(turn.game)

\* C17, the guessed set in every state reached from a new game: lowercase
\* letters only, so no more of them than string.lowercase has.
C17_GuessesAreLetters ==
    /\ game.guesses \subseteq LowercaseSet
    /\ Cardinality(game.guesses) <= Len(Lowercase)

\* C17, the add branch: whenever event() changes the guessed set, its
\* lowercased message has length 1 (the assertion holds) and is the one
\* lowercase letter added.
C17_AssertHolds ==
    game'.guesses # game.guesses
      => /\ Len(lower(input')) = 1
         /\ lower(input')[1] \in LowercaseSet
         /\ game'.guesses = game.guesses \cup {lower(input')[1]}

\* C17: starting from a new game, after any sequence of event() calls with
\* empty, multi-character, digit, punctuation, upper- or lower-case inputs,
\* every element of the guessed set is a single lowercase letter, the set is
\* no larger than the alphabet, and the assertion len(message) == 1 of the add
\* branch never fails.
C17_GuessedLetters == []C17_GuessesAreLetters /\ [][C17_AssertHolds]_vars

C17_Witness ==
    /\ game.word = <<"b", "a">>
    /\ game.guesses = {"a"}
    /\ input = <<"?">>
    /\ game.msg = MsgLettersOnly

\* C18, the save_game calls: the game passed is the handler's game and its
\* exit_code is NOT_DONE; a turn left with DONE has saved nothing and its
\* entry is gone; a turn left with DONE_WANTS_NEW has saved nothing before the
\* fetch; the resumed handler saves the replacement game.
C18_SavedGames ==
    /\ IsGame(turn.saved)
         => /\ turn.saved = turn.game
            /\ turn.saved.exit_code = NOT_DONE
    /\ ContinueLeft(turn, DONE)
         => /\ turn.saved = None
            /\ KeyOf(turn) \notin DOMAIN store
    /\ ContinueLeft(turn, DONE_WANTS_NEW) => turn.saved = None
    /\ turn.phase = "fetched"
         => /\ turn.saved = turn.game
            /\ turn.game.exit_code = NOT_DONE

\* C18, the records: a step that writes a record writes it under the key of
\* its handler, in a save_game call, as state() of the game passed.
C18_RecordsWritten ==
    \A k \in DOMAIN store' :
        (k \notin DOMAIN store \/ store'[k] # store[k] \/ IsGame(turn'.saved))
          => /\ IsGame(turn'.saved)
             /\ turn'.saved.exit_code = NOT_DONE
             /\ (k = KeyOf(turn') => store'[k] = state(turn'.saved))
             /\ (k # KeyOf(turn') => k \in DOMAIN store /\ store'[k] = store[k])

\* C18: every record written to the store was encoded from a game whose
\* exit_code is NOT_DONE; a game with exit_code DONE or DONE_WANTS_NEW is
\* never passed to save_game (DONE deletes the entry, DONE_WANTS_NEW saves
\* the replacement game instead).
C18_StoreLifecycle == []C18_SavedGames /\ [][C18_RecordsWritten]_vars

C18_Witness ==
    /\ turn.phase = "fetched"
    /\ turn.op = "resume_session"
    /\ IsGame(turn.saved)
    /\ turn.saved.exit_code = NOT_DONE
    /\ turn.saved.guesses = {}
    /\ store[KeyOf(turn)] = state(turn.saved)

\* The keys of the players whose handlers are suspended on a word fetch.
PendingKeys == {game_key(h.msisdn) : h \in pending}

\* C19, the other player's turn: handled while a fetch is out, it reads its
\* own entry and, in the same step and with the fetch still out, writes it
\* and sends its own reply; the suspended handlers and the other entries are
\* left alone.
C19_OtherPlayerTurn ==
    (pending # {} /\ Continues /\ KeyOf(turn') \notin PendingKeys)
      => /\ turn'.game = event(Loaded, input')
         /\ pending \subseteq pending'
         /\ turn'.game.exit_code = NOT_DONE
              => /\ turn'.phase = "done"
                 /\ turn'.sent = "reply"
                 /\ turn'.text = draw_board(turn'.game)
                 /\ store' = save_game(store, turn'.msisdn, turn'.game)
         /\ \A k \in PendingKeys :
                /\ k \in DOMAIN store <=> k \in DOMAIN store'
                /\ k \in DOMAIN store => store'[k] = store[k]

\* C19, the completion: the resumed handler is the one an earlier event
\* suspended, so the reply goes to the session id of that event; the new game
\* is saved under its player's key only, every other entry stays as it was.
C19_FetchCompletes ==
    turn'.phase = "fetched"
      => /\ HandlerOf(turn') \in pending
         /\ pending' = pending \ {HandlerOf(turn')}
         /\ turn'.sent = "reply"
         /\ turn'.text = draw_board(turn'.game)
         /\ store' = save_game(store, turn'.msisdn, turn'.game)
         /\ DOMAIN store' = DOMAIN store \cup {KeyOf(turn')}
         /\ \A k \in DOMAIN store \ {KeyOf(turn')} : store'[k] = store[k]

\* C19: while player A's handler is suspended on its word fetch, events for
\* another player B are handled to completion without waiting; when A's
\* fetch completes, the new game is saved only under A's key, the reply goes
\* to the session id of the event that started the fetch, and B's entry is
\* untouched.
C19_AsyncFetch == [][C19_OtherPlayerTurn /\ C19_FetchCompletes]_vars

C19_Witness ==
    /\ pending = {Handler("resume_session", <<"+", "1">>, "s1")}
    /\ turn.op = "resume_session"
    /\ turn.msisdn = <<"2">>
    /\ turn.phase = "done"
    /\ turn.sent = "reply"
    /\ input = <<"a">>
    /\ store[KeyOf(turn)] = state(turn.game)

\* The record stored under k decodes to a game over a valid word.
ValidRecord(k) ==
    /\ k \in DOMAIN store
    /\ IsGame(from_state(store[k]))
    /\ ValidWord(from_state(store[k]).word)

\* C20 as stated: a record written to the store for a key by one handler is
\* never overwritten by another handler whose load of that key happened
\* before that write: no resumed handler saves over a record when its key was
\* written, since it loaded, by another handler. (Stated for records and new
\* games over valid words only; it fails even there.)
C20_NoLostUpdate ==
    [][(/\ turn'.phase = "fetched"
        /\ ValidRecord(KeyOf(turn'))
        /\ ValidWord(turn'.game.word))
         => HandlerOf(turn') \notin stale]_vars

============================================================================
